---- MODULE Spec2Model ----
(***************************************************************************)
(* Seat reservation of seamless-Ride: the POST /api/reserve handler and    *)
(* the GET /api/trips/:id/seats query over the reservations table.         *)
(*                                                                         *)
(* The repository holds several server variants of the same routes.  Two   *)
(* families of the asynchronous handler are modelled here:                 *)
(*   "supabase"  src/server.ts:254-295 (cookie-session); the handler of    *)
(*               src/api/index.ts:211-242 (express-session) is the same    *)
(*               code, statement for statement;                            *)
(*   "postgres"  src/api/index.ts:481-507 (@vercel/postgres).              *)
(* Every `await` of a handler is a point where another request's step may  *)
(* run, so a handler is one action per database operation: the synchronous *)
(* validation up to the first await (Reserve), the SELECT of the seat      *)
(* under the loop index (Check) and its INSERT (Insert).                   *)
(* The other routes (register, login, logout, me, trip search, seats,      *)
(* reservation history) issue one database operation each and are one      *)
(* action each; seedTripsIfEmpty has two (its count and its insert).       *)
(***************************************************************************)
EXTENDS Integers, Sequences, FiniteSets, TLC

\* ------------------------------------------------------------------ bounds
\* requests that may be in flight together (Spec)
NReq == 2
\* requests served one after another (SpecSeq)
MaxReqs == 2
\* longest seat list a client sends
MaxLen == 3
\* days of departures the seeding creates (7 in src/server.ts:80)
NDays == 1
\* seedTripsIfEmpty runs that trip searches have started and that are in flight
MaxSeeds == 2
\* seats of the seat grid that the user of the client clicks on
NSeats == 3
\* payments that the user of the client makes
MaxPays == 1

\* ------------------------------------------------------- program constants
Capacity == 18
MaxSeatsPerBooking == 2

\* ------------------------------------------------------------ input domains
Req == 1..NReq
Variants == {"supabase", "postgres"}
NoUser == 0
Users == {1, 2}
TripIds == {1, 2}
\* two seats of the vehicle and one number that is on no vehicle
SeatInputs == {1, 2, Capacity + 1}
SeatLists == UNION {[1..n -> SeatInputs] : n \in 0..MaxLen}

VARIABLES
    variant,        \* which server variant is deployed
    reservations,   \* the reservations table, in insertion order
    pc,             \* per request: "idle", "check", "insert", "done"
    session,        \* per request: session.userId (NoUser: absent)
    body,           \* per request: req.body {tripId, seats}
    idx,            \* per request: position of `for (const seat of seats)`
    resp,           \* per request: the response sent
    before,         \* per request: the table as it was when the request arrived
    served,         \* number of requests that have arrived so far
    users,          \* the users table, in insertion order
    cookie,         \* session.userId held by the browser (NoUser: no session)
    trips,          \* the trips table, in insertion order
    seeder,         \* seedTripsIfEmpty runs in flight, by starter and position
    out,            \* the last response of a route other than reserve
    client          \* the state of the React client of one browser

apiVars == <<users, cookie, trips, seeder, out>>

vars == <<variant, reservations, pc, session, body, idx, resp, before, served,
          users, cookie, trips, seeder, out, client>>

\* ---------------------------------------------------------------- responses
NoResp == [status |-> 0, error |-> "", seat |-> 0]
Success == [status |-> 200, error |-> "", seat |-> 0]
ErrorResp(st, msg, s) == [status |-> st, error |-> msg, seat |-> s]

NoBody == [tripId |-> 0, seats |-> <<>>, hasSeats |-> FALSE]

\* ------------------------------------------------------------ the table
Row(id, userId, tripId, seat) ==
    [id |-> id, user_id |-> userId, trip_id |-> tripId,
     seat_number |-> seat, payment_status |-> "paid"]

\* the availability select without its trip filter
MatchingAnyTrip(rows, tripId, seat) ==
    {i \in DOMAIN rows : /\ rows[i].seat_number = seat
                         /\ rows[i].payment_status = "paid"}

\* .eq("trip_id", t).eq("seat_number", s).eq("payment_status", "paid")
Matching(rows, tripId, seat) ==
    {i \in DOMAIN rows : /\ rows[i].trip_id = tripId
                         /\ rows[i].seat_number = seat
                         /\ rows[i].payment_status = "paid"}

\* The seats query with its trip filter left out.
PaidOfAnyTrip(rows, tripId) ==
    SelectSeq(rows, LAMBDA r : r.payment_status = "paid")

\* GET /api/trips/:id/seats: the seat numbers of the trip's paid rows
PaidOfTrip(rows, tripId) ==
    SelectSeq(rows, LAMBDA r : r.trip_id = tripId /\ r.payment_status = "paid")

SeatNumbers(rows, tripId) ==
    [i \in DOMAIN PaidOfTrip(rows, tripId) |-> PaidOfTrip(rows, tripId)[i].seat_number]

occupiedSeats(rows, tripId) ==
    {SeatNumbers(rows, tripId)[i] : i \in DOMAIN SeatNumbers(rows, tripId)}

\* ------------------------------------------------------------- validation
\* Mutation of ValidateSupabase: the length check compares with `>=` of the
\* next number, so that three seats pass.
ValidateSupabaseOffByOne(userId, b) ==
    IF userId = NoUser THEN ErrorResp(401, "Please login to reserve", 0)
    ELSE IF ~b.hasSeats \/ Len(b.seats) = 0 THEN ErrorResp(400, "No seats selected", 0)
    ELSE IF Len(b.seats) > MaxSeatsPerBooking + 1 THEN ErrorResp(400, "Max 2 seats per booking", 0)
    ELSE NoResp

\* The checks in another order: the length of the list before the session.
ValidateSupabaseLengthFirst(userId, b) ==
    IF b.hasSeats /\ Len(b.seats) > MaxSeatsPerBooking
    THEN ErrorResp(400, "Max 2 seats per booking", 0)
    ELSE IF userId = NoUser THEN ErrorResp(401, "Please login to reserve", 0)
    ELSE IF ~b.hasSeats \/ Len(b.seats) = 0 THEN ErrorResp(400, "No seats selected", 0)
    ELSE NoResp

\* The checks before the try block; NoResp: the request passes them.
ValidateSupabase(userId, b) ==
    IF userId = NoUser THEN ErrorResp(401, "Please login to reserve", 0)
    ELSE IF ~b.hasSeats \/ Len(b.seats) = 0 THEN ErrorResp(400, "No seats selected", 0)
    ELSE IF Len(b.seats) > MaxSeatsPerBooking THEN ErrorResp(400, "Max 2 seats per booking", 0)
    ELSE NoResp

\* Mutation of ValidatePostgres: the session check is left out.
ValidatePostgresNoSession(userId, b) ==
    IF ~b.hasSeats THEN ErrorResp(0, "TypeError", 0)
    ELSE IF Len(b.seats) > MaxSeatsPerBooking THEN ErrorResp(400, "Maximum 2 seats allowed", 0)
    ELSE NoResp

\* `seats.length` of a missing seats throws a TypeError outside the try block of
\* the async handler: Express 4 (the `app.get("*")` route of the same file is its
\* syntax) sends no response for the rejected promise; status 0 stands for that.
ValidatePostgres(userId, b) ==
    IF userId = NoUser THEN ErrorResp(401, "Unauthorized", 0)
    ELSE IF ~b.hasSeats THEN ErrorResp(0, "TypeError", 0)
    ELSE IF Len(b.seats) > MaxSeatsPerBooking THEN ErrorResp(400, "Maximum 2 seats allowed", 0)
    ELSE NoResp

Validate(v, userId, b) ==
    IF v = "supabase" THEN ValidateSupabase(userId, b) ELSE ValidatePostgres(userId, b)

\* The outcome of the SELECT of one seat; NoResp: the seat is free, go on to
\* the INSERT.  maybeSingle() answers more than one matching row with an error,
\* which the handler rethrows; `rows.length > 0` does not tell one from many.
CheckSupabase(rows, tripId, seat) ==
    IF Cardinality(Matching(rows, tripId, seat)) > 1
    THEN ErrorResp(400, "JSON object requested, multiple (or no) rows returned", 0)
    ELSE IF Cardinality(Matching(rows, tripId, seat)) = 1
    THEN ErrorResp(400, "Seat is already booked", seat)
    ELSE NoResp

CheckPostgres(rows, tripId, seat) ==
    IF Cardinality(Matching(rows, tripId, seat)) > 0
    THEN ErrorResp(400, "Seat is already taken", seat)
    ELSE NoResp

\* Mutation of CheckSeat: the trip and the seat are passed to the wrong columns.
CheckSeatSwapped(v, rows, tripId, seat) ==
    IF v = "supabase" THEN CheckSupabase(rows, seat, tripId)
    ELSE CheckPostgres(rows, seat, tripId)

CheckSeat(v, rows, tripId, seat) ==
    IF v = "supabase" THEN CheckSupabase(rows, tripId, seat)
    ELSE CheckPostgres(rows, tripId, seat)

\* Mutation of InsertRow: payment_status is left to the column default.
InsertRowPending(rows, userId, tripId, seat) ==
    Append(rows, [Row(Len(rows) + 1, userId, tripId, seat)
                      EXCEPT !.payment_status = "pending"])

\* An insert that replaces the table by the new row.
InsertRowOverwriting(rows, userId, tripId, seat) ==
    <<Row(1, userId, tripId, seat)>>

\* .insert([{user_id, trip_id, seat_number, payment_status: "paid"}])
InsertRow(rows, userId, tripId, seat) ==
    Append(rows, Row(Len(rows) + 1, userId, tripId, seat))

\* ------------------------------------------------------------------ actions
\* --------------------------------------------------------------- the trips
\* `locations` of seedTripsIfEmpty, cut to its first two entries
Locations == <<"Malete Campus", "Lagos">>

\* price: origin === "Malete Campus" ? 12000 : 15000; initDb of the postgres
\* variant prices every trip 15000
Price(v, origin) ==
    IF v = "supabase" /\ origin = "Malete Campus" THEN 12000 ELSE 15000

\* The three nested loops of the seeding, in their order: origin, destination
\* (skipping origin = destination), day offset.
LoopTriple(k) ==
    [origin |-> Locations[((k - 1) \div (Len(Locations) * NDays)) + 1],
     destination |-> Locations[(((k - 1) \div NDays) % Len(Locations)) + 1],
     departure_date |-> (k - 1) % NDays]

NewTrips(v) ==
    LET all == [k \in 1..(Len(Locations) * Len(Locations) * NDays) |-> LoopTriple(k)]
        kept == SelectSeq(all, LAMBDA t : t.origin # t.destination)
    IN  [k \in DOMAIN kept |->
            [origin |-> kept[k].origin, destination |-> kept[k].destination,
             departure_date |-> kept[k].departure_date,
             price |-> Price(v, kept[k].origin)]]

\* insert(newTrips): the table gives every row the next identifier
InsertTrips(table, new) ==
    table \o [k \in DOMAIN new |->
                 [id |-> Len(table) + k, origin |-> new[k].origin,
                  destination |-> new[k].destination,
                  departure_date |-> new[k].departure_date, price |-> new[k].price]]

\* who starts seedTripsIfEmpty: initTables at start-up, GET /api/trips
Starters == {"startup", "search"}
\* count, insert: the runs that wait for their count of the trips table, and
\* those that counted none and wait for their insert
NoSeeding == [k \in Starters |-> [count |-> 0, insert |-> 0]]
\* trip, at: of a seats answer, the trip asked for and the number of rows the
\* table held when it was given; given: of a login answer, the password that
\* was presented
NoOut ==
    [op |-> "none", status |-> 0, error |-> "", data |-> <<>>, trip |-> 0, at |-> 0,
     given |-> ""]

\* The React state of App when the page has loaded: useState of view, user,
\* availableTrips, selectedTrip, selectedSeats, occupiedSeats; loading is true
\* and the effect's GET /api/me is in flight.
\* call: the fetch the handler that set `loading` waits for ("none": loading
\* is false); session: the cookie that the reserve call in flight carries;
\* loggingOut, loggingIn: the fetches of handleLogout and of the login form,
\* which do not set `loading`.
NoClient ==
    [view |-> "home", user |-> NoUser, call |-> "me", availableTrips |-> <<>>,
     selectedTrip |-> 0, selectedSeats |-> <<>>, occupiedSeats |-> <<>>,
     session |-> NoUser, loggingOut |-> FALSE, loggingIn |-> "no"]

\* The state once the server is up and its start-up seeding has finished.
Init ==
    /\ variant \in Variants
    /\ users = <<>>
    /\ cookie = NoUser
    /\ trips = InsertTrips(<<>>, NewTrips(variant))
    /\ seeder = NoSeeding
    /\ out = NoOut
    /\ client = NoClient
    /\ reservations = <<>>
    /\ pc = [r \in Req |-> "idle"]
    /\ session = [r \in Req |-> NoUser]
    /\ body = [r \in Req |-> NoBody]
    /\ idx = [r \in Req |-> 0]
    /\ resp = [r \in Req |-> NoResp]
    /\ before = [r \in Req |-> <<>>]
    /\ served = 0

\* The handler from its entry to its first await: the request is answered by
\* the validation, or by `res.json({success: true})` when the loop has nothing
\* to iterate, or the first SELECT is issued.
Reserve(r, userId, b) ==
    /\ session' = [session EXCEPT ![r] = userId]
    /\ body' = [body EXCEPT ![r] = b]
    /\ before' = [before EXCEPT ![r] = reservations]
    /\ served' = served + 1
    /\ IF Validate(variant, userId, b) # NoResp
       THEN /\ pc' = [pc EXCEPT ![r] = "done"]
            /\ resp' = [resp EXCEPT ![r] = Validate(variant, userId, b)]
            /\ idx' = [idx EXCEPT ![r] = 0]
       ELSE IF Len(b.seats) = 0
       THEN /\ pc' = [pc EXCEPT ![r] = "done"]
            /\ resp' = [resp EXCEPT ![r] = Success]
            /\ idx' = [idx EXCEPT ![r] = 0]
       ELSE /\ pc' = [pc EXCEPT ![r] = "check"]
            /\ idx' = [idx EXCEPT ![r] = 1]
            /\ resp' = [resp EXCEPT ![r] = NoResp]
    /\ UNCHANGED <<variant, reservations>>
    /\ UNCHANGED apiVars
    /\ UNCHANGED client

Bodies ==
    {[tripId |-> t, seats |-> s, hasSeats |-> TRUE] : t \in TripIds, s \in SeatLists}
        \cup {[tripId |-> t, seats |-> <<>>, hasSeats |-> FALSE] : t \in TripIds}

SessionUsers == {NoUser} \cup Users

\* Concurrent clients: request r arrives while others are in flight.  Requests
\* are numbered in their order of arrival.
Arrive(r) ==
    /\ pc[r] = "idle"
    /\ \A q \in Req : q < r => pc[q] # "idle"
    /\ \E userId \in SessionUsers, b \in Bodies : Reserve(r, userId, b)

\* Sequential execution: one connection, whose next request arrives only
\* after the client has read the answer to the previous one.
ArriveSeq ==
    /\ \A q \in Req : pc[q] = "idle"
    /\ served < MaxReqs
    /\ \E userId \in SessionUsers, b \in Bodies : Reserve(1, userId, b)

\* The client reads the response (`await res.json()`); the request is over.
Close(r) ==
    /\ pc[r] = "done"
    /\ pc' = [pc EXCEPT ![r] = "idle"]
    /\ session' = [session EXCEPT ![r] = NoUser]
    /\ body' = [body EXCEPT ![r] = NoBody]
    /\ idx' = [idx EXCEPT ![r] = 0]
    /\ resp' = [resp EXCEPT ![r] = NoResp]
    /\ before' = [before EXCEPT ![r] = <<>>]
    /\ UNCHANGED <<variant, reservations, served>>
    /\ UNCHANGED apiVars
    /\ UNCHANGED client

\* A loop that goes on to the next seat after a conflict and answers the
\* conflict of the last seat only.
CheckContinuing(r) ==
    /\ pc[r] = "check"
    /\ IF CheckSeat(variant, reservations, body[r].tripId, body[r].seats[idx[r]]) = NoResp
       THEN /\ pc' = [pc EXCEPT ![r] = "insert"]
            /\ resp' = resp
            /\ idx' = idx
       ELSE IF idx[r] < Len(body[r].seats)
       THEN /\ pc' = pc
            /\ resp' = resp
            /\ idx' = [idx EXCEPT ![r] = idx[r] + 1]
       ELSE /\ pc' = [pc EXCEPT ![r] = "done"]
            /\ idx' = idx
            /\ resp' = [resp EXCEPT ![r] =
                   CheckSeat(variant, reservations, body[r].tripId, body[r].seats[idx[r]])]
    /\ UNCHANGED <<variant, reservations, session, body, before, served>>
    /\ UNCHANGED apiVars
    /\ UNCHANGED client

\* The SELECT of seats[idx]: a conflict (or a query error) is thrown to the
\* catch block, which answers 400 with the message.
Check(r) ==
    /\ pc[r] = "check"
    /\ IF CheckSeat(variant, reservations, body[r].tripId, body[r].seats[idx[r]]) # NoResp
       THEN /\ pc' = [pc EXCEPT ![r] = "done"]
            /\ resp' = [resp EXCEPT ![r] =
                   CheckSeat(variant, reservations, body[r].tripId, body[r].seats[idx[r]])]
       ELSE /\ pc' = [pc EXCEPT ![r] = "insert"]
            /\ resp' = resp
    /\ UNCHANGED <<variant, reservations, session, body, idx, before, served>>
    /\ UNCHANGED apiVars
    /\ UNCHANGED client

\* The INSERT of seats[idx], then the next iteration or the success response.
Insert(r) ==
    /\ pc[r] = "insert"
    /\ reservations' =
           InsertRow(reservations, session[r], body[r].tripId, body[r].seats[idx[r]])
    /\ IF idx[r] = Len(body[r].seats)
       THEN /\ pc' = [pc EXCEPT ![r] = "done"]
            /\ resp' = [resp EXCEPT ![r] = Success]
            /\ idx' = idx
       ELSE /\ pc' = [pc EXCEPT ![r] = "check"]
            /\ idx' = [idx EXCEPT ![r] = idx[r] + 1]
            /\ resp' = resp
    /\ UNCHANGED <<variant, session, body, before, served>>
    /\ UNCHANGED apiVars
    /\ UNCHANGED client

Next == \E r \in Req : Arrive(r) \/ Check(r) \/ Insert(r)

Spec == Init /\ [][Next]_vars

NextSeq == ArriveSeq \/ Check(1) \/ Insert(1) \/ Close(1)

SpecSeq == Init /\ [][NextSeq]_vars

\* ------------------------------------------------------------- properties
\* The error kinds of the specification, read off the responses of the variants.
IsUnauthenticated(x) == x.status = 401
IsNoSeatsSelected(x) == x.status = 400 /\ x.error = "No seats selected"
IsTooManySeats(x) ==
    x.status = 400 /\ x.error \in {"Max 2 seats per booking", "Maximum 2 seats allowed"}
IsSeatAlreadyBooked(x) ==
    x.status = 400 /\ x.error \in {"Seat is already booked", "Seat is already taken"}
\* No variant has a message of its own for an invalid seat: any 400 that is
\* none of the other kinds is taken for it.
IsInvalidSeat(x) ==
    x.status = 400 /\ ~IsNoSeatsSelected(x) /\ ~IsTooManySeats(x) /\ ~IsSeatAlreadyBooked(x)

SeatSet(seats) == {seats[i] : i \in DOMAIN seats}
Distinct(seats) == \A i, j \in DOMAIN seats : i # j => seats[i] # seats[j]
\* an answered request of a logged-in user that passed the length checks
Processed(r) ==
    /\ pc[r] = "done"
    /\ session[r] # NoUser
    /\ body[r].hasSeats
    /\ Len(body[r].seats) \in 1..MaxSeatsPerBooking
WasFree(r, seat) == seat \notin occupiedSeats(before[r], body[r].tripId)

\* C1: in every reachable state, under any interleaving of reserve requests,
\* each (trip, seat) has at most one paid reservation row.
C1_AtMostOnePaidRowPerSeat ==
    \A t \in TripIds, s \in SeatInputs : Cardinality(Matching(reservations, t, s)) <= 1

\* C2: when two or more authenticated reserve calls have each asked for the same
\* seat of the same trip, free when the first of them arrived, and all have been
\* answered, exactly one got success and the others the seat-already-booked error.
C2_ExactlyOneWinner ==
    \A t \in TripIds, s \in SeatInputs :
        LET calls == {r \in Req : Processed(r) /\ body[r].tripId = t /\ body[r].seats = <<s>>}
        IN  (Cardinality(calls) >= 2 /\ \E r \in calls : WasFree(r, s))
            => /\ Cardinality({r \in calls : resp[r] = Success}) = 1
               /\ \A r \in calls : resp[r] # Success => IsSeatAlreadyBooked(resp[r])

\* C3: a two-seat request with one seat already confirmed and the other free, in
\* either order, is rejected and adds no row: the free seat is still unconfirmed.
C3_NoPartialCommit ==
    \A r \in Req :
        (/\ Processed(r)
         /\ \E i, j \in DOMAIN body[r].seats :
                /\ ~WasFree(r, body[r].seats[i])
                /\ WasFree(r, body[r].seats[j]))
        => /\ resp[r] # Success
           /\ reservations = before[r]
           /\ \A j \in DOMAIN body[r].seats :
                  WasFree(r, body[r].seats[j])
                      => body[r].seats[j] \notin occupiedSeats(reservations, body[r].tripId)

\* C4: a logged-in request for 1 or 2 distinct free seats of trip T that ran alone
\* and returned success leaves occupiedSeats(T) equal to the previous set plus the
\* requested seats, and the rows it added, one per seat, carry the requesting user.
C4_SuccessAddsRequestedSeats ==
    \A r \in Req :
        (/\ Processed(r)
         /\ resp[r] = Success
         /\ Distinct(body[r].seats)
         /\ \A i \in DOMAIN body[r].seats : WasFree(r, body[r].seats[i]))
        => /\ occupiedSeats(reservations, body[r].tripId)
                  = occupiedSeats(before[r], body[r].tripId) \cup SeatSet(body[r].seats)
           /\ Len(reservations) = Len(before[r]) + Len(body[r].seats)
           /\ SubSeq(reservations, 1, Len(before[r])) = before[r]
           /\ \A i \in (Len(before[r]) + 1)..Len(reservations) :
                  /\ reservations[i].user_id = session[r]
                  /\ reservations[i].trip_id = body[r].tripId

C4_Witness ==
    \E r \in Req :
        /\ Processed(r)
        /\ resp[r] = Success
        /\ Len(body[r].seats) = 2
        /\ Distinct(body[r].seats)
        /\ before[r] # <<>>
        /\ occupiedSeats(before[r], body[r].tripId) # {}
        /\ \A i \in DOMAIN body[r].seats : WasFree(r, body[r].seats[i])

\* C5: in sequential execution a request (of a logged-in user, 1 or 2 seats) that
\* lists a seat already confirmed on its trip gets the seat-already-booked error,
\* the error names a seat of the request that is confirmed in the ledger, and when
\* the first seat of the request is the confirmed one the ledger is unchanged.
C5_ConflictIsNamed ==
    \A r \in Req :
        (/\ Processed(r)
         /\ \E i \in DOMAIN body[r].seats : ~WasFree(r, body[r].seats[i]))
        => /\ IsSeatAlreadyBooked(resp[r])
           /\ resp[r].seat \in SeatSet(body[r].seats)
           /\ resp[r].seat \in occupiedSeats(before[r], body[r].tripId)
           /\ resp[r].seat \in occupiedSeats(reservations, body[r].tripId)
           /\ ~WasFree(r, body[r].seats[1])
                  => /\ reservations = before[r]
                     /\ occupiedSeats(reservations, body[r].tripId)
                            = occupiedSeats(before[r], body[r].tripId)

C5_Witness ==
    \E r \in Req :
        /\ Processed(r)
        /\ Len(body[r].seats) = 2
        /\ ~WasFree(r, body[r].seats[1])
        /\ WasFree(r, body[r].seats[2])
        /\ IsSeatAlreadyBooked(resp[r])
        /\ resp[r].seat = body[r].seats[1]

\* C6: a logged-in request with more than 2 seats is answered at once with the
\* too-many-seats error and writes no row, whether or not its seats are free.
C6_TooManySeatsRejected ==
    \A r \in Req :
        (/\ pc[r] # "idle"
         /\ session[r] # NoUser
         /\ body[r].hasSeats
         /\ Len(body[r].seats) > MaxSeatsPerBooking)
        => /\ pc[r] = "done"
           /\ IsTooManySeats(resp[r])
           /\ reservations = before[r]

C6_Witness ==
    \E r \in Req :
        /\ pc[r] = "done"
        /\ session[r] # NoUser
        /\ Len(body[r].seats) > MaxSeatsPerBooking
        /\ IsTooManySeats(resp[r])
        /\ \E i, j \in DOMAIN body[r].seats :
               /\ ~WasFree(r, body[r].seats[i])
               /\ WasFree(r, body[r].seats[j])
               /\ body[r].seats[j] \in 1..Capacity

\* C7: a logged-in request with an empty or missing seat list is answered at
\* once, never with success, and writes no row; the answer to an empty list is
\* the no-seats-selected error.  (For a missing list only the part of the claim
\* that does not rest on how Express treats a handler that throws is stated.)
C7_EmptySeatListRejected ==
    \A r \in Req :
        (/\ pc[r] # "idle"
         /\ session[r] # NoUser
         /\ (~body[r].hasSeats \/ Len(body[r].seats) = 0))
        => /\ pc[r] = "done"
           /\ resp[r] # Success
           /\ reservations = before[r]
           /\ body[r].hasSeats => IsNoSeatsSelected(resp[r])

\* C8: a request without a session user is answered at once with 401: it never
\* reaches a SELECT or an INSERT, and the table is as it was.
C8_UnauthenticatedRejected ==
    \A r \in Req :
        (pc[r] # "idle" /\ session[r] = NoUser)
        => /\ pc[r] = "done"
           /\ IsUnauthenticated(resp[r])
           /\ reservations = before[r]

C8_Witness ==
    \E r \in Req :
        /\ pc[r] = "done"
        /\ session[r] = NoUser
        /\ IsUnauthenticated(resp[r])
        /\ body[r].hasSeats
        /\ Len(body[r].seats) \in 1..MaxSeatsPerBooking
        /\ before[r] # <<>>
        /\ \A i \in DOMAIN body[r].seats : WasFree(r, body[r].seats[i])

\* C9: a request (logged in, 1 or 2 seats) with a seat number outside 1..18 is
\* rejected with the invalid-seat error and writes no row.
C9_InvalidSeatRejected ==
    \A r \in Req :
        (/\ Processed(r)
         /\ \E i \in DOMAIN body[r].seats : body[r].seats[i] \notin 1..Capacity)
        => /\ IsInvalidSeat(resp[r])
           /\ reservations = before[r]

\* C10: a request that lists the same seat twice is rejected with the
\* invalid-seat error, and the seat, free before, is still unconfirmed.
C10_DuplicateSeatRejected ==
    \A r \in Req :
        (/\ Processed(r)
         /\ Len(body[r].seats) = 2
         /\ body[r].seats[1] = body[r].seats[2]
         /\ body[r].seats[1] \in 1..Capacity
         /\ WasFree(r, body[r].seats[1]))
        => /\ IsInvalidSeat(resp[r])
           /\ body[r].seats[1] \notin occupiedSeats(reservations, body[r].tripId)

\* ------------------------------------------------- the handler run alone
\* The seat loop with no other request's step between its operations.
RECURSIVE SeatLoop(_, _, _, _, _)
SeatLoop(v, rows, userId, b, i) ==
    IF i > Len(b.seats) THEN [rows |-> rows, resp |-> Success]
    ELSE IF CheckSeat(v, rows, b.tripId, b.seats[i]) # NoResp
    THEN [rows |-> rows, resp |-> CheckSeat(v, rows, b.tripId, b.seats[i])]
    ELSE SeatLoop(v, InsertRow(rows, userId, b.tripId, b.seats[i]), userId, b, i + 1)

\* POST /api/reserve from entry to response, run on the table `rows`.
RunAlone(v, rows, userId, b) ==
    IF Validate(v, userId, b) # NoResp
    THEN [rows |-> rows, resp |-> Validate(v, userId, b)]
    ELSE SeatLoop(v, rows, userId, b, 1)

\* The requests order[k], order[k+1], ... served one after another.
RECURSIVE SerialRun(_, _, _, _)
SerialRun(v, rows, order, k) ==
    IF k > Len(order) THEN [rows |-> rows, resps |-> <<>>]
    ELSE LET one == RunAlone(v, rows, session[order[k]], body[order[k]])
             rest == SerialRun(v, one.rows, order, k + 1)
         IN  [rows |-> rest.rows, resps |-> <<one.resp>> \o rest.resps]

\* the rows of two tables agree up to their identifiers and their order
RowCount(rows, u, t, s) ==
    Cardinality({i \in DOMAIN rows : /\ rows[i].user_id = u
                                     /\ rows[i].trip_id = t
                                     /\ rows[i].seat_number = s})
SameRows(a, b) ==
    \A u \in SessionUsers, t \in TripIds, s \in SeatInputs :
        RowCount(a, u, t, s) = RowCount(b, u, t, s)

\* The step-by-step handler and the handler run alone agree when no other
\* request runs.
StepsAgreeWithRunAlone ==
    \A r \in Req :
        pc[r] = "done"
        => /\ resp[r] = RunAlone(variant, before[r], session[r], body[r]).resp
           /\ reservations = RunAlone(variant, before[r], session[r], body[r]).rows

\* C11: every reservation row has a seat number in 1..18, so no trip has more
\* than 18 confirmed seats.
C11_SeatsWithinCapacity ==
    /\ \A i \in DOMAIN reservations : reservations[i].seat_number \in 1..Capacity
    /\ \A t \in TripIds : Len(PaidOfTrip(reservations, t)) <= Capacity

\* C12: when concurrent reserve calls have all been answered, the answers and the
\* final ledger are those of the same calls served one after another in some order.
C12_Serializable ==
    (\A r \in Req : pc[r] = "done")
    => \E order \in Permutations(Req) :
           LET serial == SerialRun(variant, <<>>, [k \in 1..NReq |-> order[k]], 1)
           IN  /\ \A k \in 1..NReq : serial.resps[k] = resp[order[k]]
               /\ SameRows(serial.rows, reservations)

\* C16: a reserve call whose concurrent calls are all on other trips is never
\* kept waiting by them, and ends with the answer and the confirmed seats of its
\* trip that it has when run alone on its trip's rows.
OthersOnOtherTrips(r) ==
    \A q \in Req \ {r} : pc[q] # "idle" => body[q].tripId # body[r].tripId

C16_TripsIndependent ==
    \A r \in Req :
        (pc[r] # "idle" /\ OthersOnOtherTrips(r))
        => /\ pc[r] = "check" => ENABLED Check(r)
           /\ pc[r] = "insert" => ENABLED Insert(r)
           /\ pc[r] = "done"
              => LET alone == RunAlone(variant, PaidOfTrip(before[r], body[r].tripId),
                                       session[r], body[r])
                 IN  /\ resp[r] = alone.resp
                     /\ SeatNumbers(reservations, body[r].tripId)
                        = SeatNumbers(alone.rows, body[r].tripId)

C16_Witness ==
    /\ \A r \in Req : pc[r] = "done" /\ resp[r] = Success
    /\ Len(reservations) >= 3
    /\ reservations[1].trip_id = reservations[3].trip_id
    /\ reservations[2].trip_id # reservations[1].trip_id
    /\ reservations[2].seat_number = reservations[1].seat_number

\* ------------------------------------------------------- storage failures
\* The database answers an operation with an error (connection lost, timeout):
\* the handler rethrows it and the catch block answers 400 with its message.
StorageError == ErrorResp(400, "storage error", 0)

\* `if (checkError) throw checkError`: the SELECT of seats[idx] fails.
CheckFail(r) ==
    /\ pc[r] = "check"
    /\ pc' = [pc EXCEPT ![r] = "done"]
    /\ resp' = [resp EXCEPT ![r] = StorageError]
    /\ UNCHANGED <<variant, reservations, session, body, idx, before, served>>
    /\ UNCHANGED apiVars
    /\ UNCHANGED client

\* `if (insertError) throw insertError`: the INSERT of seats[idx] fails, no row
\* is written.
InsertFail(r) ==
    /\ pc[r] = "insert"
    /\ pc' = [pc EXCEPT ![r] = "done"]
    /\ resp' = [resp EXCEPT ![r] = StorageError]
    /\ UNCHANGED <<variant, reservations, session, body, idx, before, served>>
    /\ UNCHANGED apiVars
    /\ UNCHANGED client

NextFault ==
    ArriveSeq \/ Check(1) \/ Insert(1) \/ Close(1) \/ CheckFail(1) \/ InsertFail(1)

SpecFault == Init /\ [][NextFault]_vars

\* C17: a request of which a storage operation fails answers with an error and
\* leaves none of its seats confirmed.
C17_StorageFailureLeavesNothing ==
    \A r \in Req :
        (pc[r] = "done" /\ resp[r] = StorageError) => reservations = before[r]

\* C18 (response part): a reserve call that has run to its end has sent a
\* response, on every path of the handler.
C18_EveryCallAnswered ==
    \A r \in Req : pc[r] = "done" => resp[r].status # 0

\* ---------------------------------------------------------- the other routes
Matrics == {"m1", "m2"}
\* "": the field is missing from the body
MatricInputs == Matrics \cup {""}
Passwords == {"pw", "bad"}

Ok(op, data) ==
    [op |-> op, status |-> 200, error |-> "", data |-> data, trip |-> 0, at |-> 0,
     given |-> ""]
Fail(op, st, msg) ==
    [op |-> op, status |-> st, error |-> msg, data |-> <<>>, trip |-> 0, at |-> 0,
     given |-> ""]

\* bcrypt.hash / bcrypt.compare: a hash matches the password it was made of
Hash(p) == <<"bcrypt", p>>
Compare(p, h) == h = Hash(p)

UsersWith(m) == {i \in DOMAIN users : users[i].matric_number = m}

\* POST /api/register; every user registers with the password "pw"
Register(m) ==
    /\ IF m = ""
       THEN /\ out' = Fail("register", 400, "All fields are required")
            /\ users' = users
       ELSE IF UsersWith(m) # {}
       THEN /\ out' = Fail("register", 400, "Matric number already registered")
            /\ users' = users
       ELSE /\ users' = Append(users, [id |-> Len(users) + 1, matric_number |-> m,
                                       password |-> Hash("pw")])
            /\ out' = Ok("register", <<Len(users) + 1>>)
    /\ UNCHANGED <<variant, reservations, pc, session, body, idx, resp, before, served>>
    /\ UNCHANGED <<cookie, trips, seeder>>
    /\ UNCHANGED client

\* what a login call answers; `given` keeps the password that was presented
LoginOk(id, p) == [Ok("login", <<id>>) EXCEPT !.given = p]
LoginFail(p) == [Fail("login", 401, "Invalid credentials") EXCEPT !.given = p]

\* A login that skips bcrypt.compare: any password of a registered user passes.
LoginAnyPassword(m, p) ==
    /\ IF UsersWith(m) # {}
       THEN /\ cookie' = users[CHOOSE i \in UsersWith(m) : TRUE].id
            /\ out' = LoginOk(users[CHOOSE i \in UsersWith(m) : TRUE].id, p)
       ELSE /\ cookie' = cookie
            /\ out' = LoginFail(p)
    /\ UNCHANGED <<variant, reservations, pc, session, body, idx, resp, before, served>>
    /\ UNCHANGED <<users, trips, seeder>>
    /\ UNCHANGED client

\* POST /api/login: a failed login leaves the session as it was
Login(m, p) ==
    /\ IF \E i \in UsersWith(m) : Compare(p, users[i].password)
       THEN /\ cookie' = users[CHOOSE i \in UsersWith(m) : TRUE].id
            /\ out' = LoginOk(users[CHOOSE i \in UsersWith(m) : TRUE].id, p)
       ELSE /\ cookie' = cookie
            /\ out' = LoginFail(p)
    /\ UNCHANGED <<variant, reservations, pc, session, body, idx, resp, before, served>>
    /\ UNCHANGED <<users, trips, seeder>>
    /\ UNCHANGED client

\* A logout that also empties the reservations table.
LogoutWiping ==
    /\ cookie' = NoUser
    /\ out' = Ok("logout", <<>>)
    /\ reservations' = <<>>
    /\ UNCHANGED <<variant, pc, session, body, idx, resp, before, served>>
    /\ UNCHANGED <<users, trips, seeder>>
    /\ UNCHANGED client

\* POST /api/logout: session = null
Logout ==
    /\ cookie' = NoUser
    /\ out' = Ok("logout", <<>>)
    /\ UNCHANGED <<variant, reservations, pc, session, body, idx, resp, before, served>>
    /\ UNCHANGED <<users, trips, seeder>>
    /\ UNCHANGED client

\* GET /api/me: the session's user, or null
Me ==
    /\ out' = Ok("me", IF \E i \in DOMAIN users : users[i].id = cookie
                       THEN <<cookie>> ELSE <<>>)
    /\ UNCHANGED <<variant, reservations, pc, session, body, idx, resp, before, served>>
    /\ UNCHANGED <<users, cookie, trips, seeder>>
    /\ UNCHANGED client

\* ------------------------------------------------------------- trip search
\* query strings of GET /api/trips; day NDays is a day the seeding creates no
\* departure for
Queries ==
    {[origin |-> Locations[1], destination |-> Locations[d], date |-> day,
      complete |-> TRUE] : d \in DOMAIN Locations, day \in 0..NDays}
        \cup {[origin |-> "", destination |-> Locations[1], date |-> 0,
               complete |-> FALSE]}

\* .eq("origin", o).eq("destination", d).eq("departure_date", date)
findTrips(table, q) ==
    SelectSeq(table, LAMBDA t : /\ t.origin = q.origin
                                /\ t.destination = q.destination
                                /\ t.departure_date = q.date)

\* A select without an order clause: the database may return the rows it
\* found in any order.
Orderings(rows) ==
    {[i \in DOMAIN rows |-> rows[p[i]]] : p \in Permutations(DOMAIN rows)}

\* runs of seedTripsIfEmpty that trip searches started and that are in flight
SearchSeeding == seeder["search"].count + seeder["search"].insert

\* GET /api/trips.  The handler of src/server.ts starts seedTripsIfEmpty in the
\* background when it found nothing; the postgres handler does not.
SearchTrips(q) ==
    /\ IF ~q.complete
       THEN /\ out' = Fail("trips", 400, IF variant = "supabase"
                                         THEN "Missing search criteria"
                                         ELSE "Missing required parameters")
            /\ seeder' = seeder
       ELSE /\ \E found \in Orderings(findTrips(trips, q)) : out' = Ok("trips", found)
            /\ IF variant = "supabase" /\ findTrips(trips, q) = <<>>
               THEN /\ SearchSeeding < MaxSeeds
                    /\ seeder' = [seeder EXCEPT !["search"].count = @ + 1]
               ELSE seeder' = seeder
    /\ UNCHANGED <<variant, reservations, pc, session, body, idx, resp, before, served>>
    /\ UNCHANGED <<users, cookie, trips>>
    /\ UNCHANGED client

\* seedTripsIfEmpty, its count of the trips table
SeedCount(s) ==
    /\ seeder[s].count > 0
    /\ seeder' = [seeder EXCEPT ![s].count = @ - 1,
                                ![s].insert = IF Len(trips) = 0 THEN @ + 1 ELSE @]
    /\ UNCHANGED <<variant, reservations, pc, session, body, idx, resp, before, served>>
    /\ UNCHANGED <<users, cookie, trips, out>>
    /\ UNCHANGED client

\* seedTripsIfEmpty, its insert of the trips it built after counting none
SeedInsert(s) ==
    /\ seeder[s].insert > 0
    /\ trips' = InsertTrips(trips, NewTrips(variant))
    /\ seeder' = [seeder EXCEPT ![s].insert = @ - 1]
    /\ UNCHANGED <<variant, reservations, pc, session, body, idx, resp, before, served>>
    /\ UNCHANGED <<users, cookie, out>>
    /\ UNCHANGED client

\* ------------------------------------------------- seats and history queries
\* GET /api/trips/:id/seats
GetSeats(t) ==
    /\ \E found \in Orderings(SeatNumbers(reservations, t)) :
           out' = [Ok("seats", found) EXCEPT !.trip = t, !.at = Len(reservations)]
    /\ UNCHANGED <<variant, reservations, pc, session, body, idx, resp, before, served>>
    /\ UNCHANGED <<users, cookie, trips, seeder>>
    /\ UNCHANGED client

Reverse(s) == [i \in DOMAIN s |-> s[Len(s) + 1 - i]]

TripsWithId(table, id) == {k \in DOMAIN table : table[k].id = id}

Joined(table, r) ==
    LET t == table[CHOOSE k \in TripsWithId(table, r.trip_id) : TRUE]
    IN  [id |-> r.id, user_id |-> r.user_id, trip_id |-> r.trip_id,
         seat_number |-> r.seat_number, payment_status |-> r.payment_status,
         origin |-> t.origin, destination |-> t.destination,
         departure_date |-> t.departure_date, price |-> t.price]

\* The history query in the order of insertion.
reservationsForAscending(rows, table, userId) ==
    LET mine == SelectSeq(rows, LAMBDA r : /\ r.user_id = userId
                                           /\ TripsWithId(table, r.trip_id) # {})
    IN  [i \in DOMAIN mine |-> Joined(table, mine[i])]

\* The rows of the user joined with their trips, newest first.  created_at is
\* the time of the insert, so its descending order is the reverse of the
\* order of insertion.
reservationsFor(rows, table, userId) ==
    LET mine == SelectSeq(rows, LAMBDA r : /\ r.user_id = userId
                                           /\ TripsWithId(table, r.trip_id) # {})
    IN  [i \in DOMAIN mine |-> Joined(table, Reverse(mine)[i])]

\* a row of the user whose trip_id names no trip: `r.trips` is null
Tripless(rows, table, userId) ==
    {i \in DOMAIN rows : rows[i].user_id = userId /\ TripsWithId(table, rows[i].trip_id) = {}}

\* GET /api/my-reservations.  The flattening of src/server.ts throws on a row
\* without trip and the catch block answers 500; the JOIN of the postgres
\* variant leaves such a row out.
MyReservations ==
    /\ out' = IF cookie = NoUser
              THEN Fail("my-reservations", 401, "Unauthorized")
              ELSE IF variant = "supabase" /\ Tripless(reservations, trips, cookie) # {}
              THEN Fail("my-reservations", 500, "Failed to load reservations")
              ELSE Ok("my-reservations", reservationsFor(reservations, trips, cookie))
    /\ UNCHANGED <<variant, reservations, pc, session, body, idx, resp, before, served>>
    /\ UNCHANGED <<users, cookie, trips, seeder>>
    /\ UNCHANGED client

\* ------------------------------------------------------------ the whole API
\* One browser: it books seats 1 and 2 of trip 1 or seat 1 of trip 2, and its
\* reserve call carries its session cookie.
ApiBodies ==
    {[tripId |-> 1, seats |-> <<1, 2>>, hasSeats |-> TRUE],
     [tripId |-> 2, seats |-> <<1>>, hasSeats |-> TRUE]}

ArriveApi ==
    /\ \A q \in Req : pc[q] = "idle"
    /\ served < MaxReqs
    /\ \E b \in ApiBodies : Reserve(1, cookie, b)

NextApi ==
    \/ ArriveApi \/ Check(1) \/ Insert(1) \/ Close(1)
    \/ \E m \in MatricInputs : Register(m)
    \/ \E m \in Matrics, p \in Passwords : Login(m, p)
    \/ Logout
    \/ Me
    \/ \E q \in Queries : SearchTrips(q)
    \/ SeedCount("search")
    \/ \E t \in TripIds : GetSeats(t)
    \/ MyReservations

SpecApi == Init /\ [][NextApi]_vars

\* The server starts on an empty trips table: initTables() is called without
\* await, so requests are served while the start-up seeding runs.
\* The postgres variant awaits initDb() before it listens.
InitTrips ==
    /\ variant \in Variants
    /\ reservations = <<>>
    /\ pc = [r \in Req |-> "idle"]
    /\ session = [r \in Req |-> NoUser]
    /\ body = [r \in Req |-> NoBody]
    /\ idx = [r \in Req |-> 0]
    /\ resp = [r \in Req |-> NoResp]
    /\ before = [r \in Req |-> <<>>]
    /\ served = 0
    /\ users = <<>>
    /\ cookie = NoUser
    /\ trips = <<>>
    /\ seeder = [NoSeeding EXCEPT !["startup"].count = 1]
    /\ out = NoOut
    /\ client = NoClient

SearchWhenListening(q) ==
    /\ variant = "postgres" => seeder["startup"] = NoSeeding["startup"]
    /\ SearchTrips(q)

NextTrips ==
    \/ \E q \in Queries : SearchWhenListening(q)
    \/ \E s \in Starters : SeedCount(s)
    \/ \E s \in Starters : SeedInsert(s)

SpecTrips == InitTrips /\ [][NextTrips]_vars

\* ------------------------------------------------ properties of the whole API
IsPrefix(a, b) == Len(a) <= Len(b) /\ \A i \in DOMAIN a : b[i] = a[i]

\* C13: reservations are append-only: in every step the rows that exist stay,
\* unchanged and in place; no operation updates or deletes a row.
C13_AppendOnly == [][IsPrefix(reservations, reservations')]_vars

C13_Witness ==
    /\ Len(reservations) >= 3
    /\ \E i, j \in DOMAIN reservations : reservations[i].user_id # reservations[j].user_id
    /\ out.op = "logout"

\* C14: the reservations table changes only in the insert step of a reserve
\* call; no step of the seats query, the trip search, the history, register,
\* login, logout or me changes it.
C14_OnlyReserveWrites ==
    [][reservations' # reservations
       => /\ \E r \in Req : pc[r] = "insert" /\ pc'[r] \in {"check", "done"}
          /\ UNCHANGED apiVars]_vars

C14_Witness ==
    /\ Len(reservations) >= 2
    /\ out.op = "me"
    /\ out.data # <<>>
    /\ seeder["search"].count > 0

AsSet(s) == {s[i] : i \in DOMAIN s}

PaidSeatsOf(t) ==
    {reservations[i].seat_number :
        i \in {j \in DOMAIN reservations : /\ reservations[j].trip_id = t
                                           /\ reservations[j].payment_status = "paid"}}

\* C15: a seats query of trip T answers exactly the seats of T's paid rows, and
\* the same set as the seats query of T answered before it when no row of T
\* was inserted between the two.
C15_SeatsQueryExactAndStable ==
    [][\A t \in TripIds :
           GetSeats(t)
           => /\ AsSet(out'.data) = PaidSeatsOf(t)
              /\ (/\ out.op = "seats"
                  /\ out.trip = t
                  /\ \A i \in DOMAIN reservations :
                         i > out.at => reservations[i].trip_id # t)
                 => AsSet(out'.data) = AsSet(out.data)]_vars

C15_Witness ==
    /\ out.op = "seats"
    /\ out.data # <<>>
    /\ out.at = Len(reservations)
    /\ \E i \in DOMAIN reservations : reservations[i].trip_id # out.trip

RowsOfUser(u) == {i \in DOMAIN reservations : reservations[i].user_id = u}

TripById(id) == trips[CHOOSE k \in DOMAIN trips : trips[k].id = id]

\* C19: the reservation history answers exactly the rows of the session's
\* user, each once, each with the origin, destination, date and price of its
\* trip, the newest first; without a session user it answers 401.
C19_HistoryOfTheUser ==
    [][MyReservations
       => IF cookie = NoUser
          THEN out'.status = 401 /\ out'.data = <<>>
          ELSE /\ out'.status = 200
               /\ Len(out'.data) = Cardinality(RowsOfUser(cookie))
               /\ {out'.data[i].id : i \in DOMAIN out'.data}
                  = {reservations[j].id : j \in RowsOfUser(cookie)}
               /\ \A i \in DOMAIN out'.data :
                      \E j \in RowsOfUser(cookie) :
                          /\ out'.data[i].id = reservations[j].id
                          /\ out'.data[i].trip_id = reservations[j].trip_id
                          /\ out'.data[i].seat_number = reservations[j].seat_number
                          /\ out'.data[i].user_id = cookie
                          /\ out'.data[i].origin = TripById(reservations[j].trip_id).origin
                          /\ out'.data[i].destination
                             = TripById(reservations[j].trip_id).destination
                          /\ out'.data[i].departure_date
                             = TripById(reservations[j].trip_id).departure_date
                          /\ out'.data[i].price = TripById(reservations[j].trip_id).price
               /\ \A i, k \in DOMAIN out'.data : i < k => out'.data[i].id > out'.data[k].id]_vars

C19_Witness ==
    /\ out.op = "my-reservations"
    /\ Len(out.data) >= 2
    /\ \E i \in DOMAIN reservations : reservations[i].user_id # cookie

\* C20: the trips table changes only when the start-up seeding fills the empty
\* table; a trip search, also one that finds nothing, leads to no insert,
\* change or deletion of a trip.
C20_SearchIsPureRead ==
    [][trips' # trips
       => /\ trips = <<>>
          /\ seeder["startup"].insert = 1
          /\ seeder'["startup"].insert = 0]_vars

\* C26: whatever the interleaving of the runs of seedTripsIfEmpty, the trips
\* table never holds two trips of the same origin, destination and departure
\* date, and no trip whose origin is its destination.
C26_CatalogueSeededOnce ==
    /\ \A i, j \in DOMAIN trips :
           (/\ trips[i].origin = trips[j].origin
            /\ trips[i].destination = trips[j].destination
            /\ trips[i].departure_date = trips[j].departure_date) => i = j
    /\ \A i \in DOMAIN trips : trips[i].origin # trips[i].destination

MatchingTrips(q) ==
    {k \in DOMAIN trips : /\ trips[k].origin = q.origin
                          /\ trips[k].destination = q.destination
                          /\ trips[k].departure_date = q.date}

\* C21: a trip search answers exactly the trips whose origin, destination and
\* date equal the arguments, each once, in ascending order of identifier.
C21_SearchExactAndSorted ==
    [][\A q \in Queries :
           (q.complete /\ SearchTrips(q))
           => /\ out'.status = 200
              /\ Len(out'.data) = Cardinality(MatchingTrips(q))
              /\ {out'.data[i] : i \in DOMAIN out'.data}
                 = {trips[k] : k \in MatchingTrips(q)}
              /\ \A i, j \in DOMAIN out'.data :
                     i < j => out'.data[i].id < out'.data[j].id]_vars

\* C22: the checks of a reserve call are applied in a fixed order and the first
\* that fails decides the answer: the session user, then the empty seat list,
\* then more than 2 seats, and only then the availability of the seats.
C22_ValidationOrder ==
    \A r \in Req :
        /\ pc[r] \in {"check", "insert"}
           => /\ session[r] # NoUser
              /\ body[r].hasSeats
              /\ Len(body[r].seats) \in 1..MaxSeatsPerBooking
        /\ pc[r] = "done"
           => /\ session[r] = NoUser => IsUnauthenticated(resp[r])
              /\ IsNoSeatsSelected(resp[r]) => session[r] # NoUser
              /\ (/\ variant = "supabase"
                  /\ session[r] # NoUser
                  /\ (~body[r].hasSeats \/ Len(body[r].seats) = 0))
                 => IsNoSeatsSelected(resp[r])
              /\ (/\ session[r] # NoUser
                  /\ body[r].hasSeats
                  /\ Len(body[r].seats) > MaxSeatsPerBooking)
                 => IsTooManySeats(resp[r]) /\ reservations = before[r]
              /\ IsSeatAlreadyBooked(resp[r])
                 => /\ session[r] # NoUser
                    /\ Len(body[r].seats) \in 1..MaxSeatsPerBooking

C22_Witness ==
    \E r \in Req :
        /\ pc[r] = "done"
        /\ session[r] = NoUser
        /\ Len(body[r].seats) = MaxSeatsPerBooking + 1
        /\ body[r].seats[1] \in occupiedSeats(before[r], body[r].tripId)
        /\ IsUnauthenticated(resp[r])

\* C23: a reserve call selects each position of its seat list at most once and
\* in order, and once it has answered (a conflict included) it makes no further
\* select or insert: the table stays as it is until the next request.
C23_NoRetry ==
    [][\A r \in Req :
           /\ pc[r] = "check"
              => /\ idx'[r] = idx[r]
                 /\ pc'[r] \in {"check", "insert", "done"}
                 /\ reservations' = reservations
           /\ pc[r] = "insert"
              => \/ pc'[r] = "insert" /\ idx'[r] = idx[r]
                 \/ pc'[r] = "check" /\ idx'[r] = idx[r] + 1
                 \/ pc'[r] = "done" /\ idx[r] = Len(body[r].seats)
           /\ pc[r] = "done"
              => /\ pc'[r] \in {"done", "idle"}
                 /\ pc'[r] = "done" => resp'[r] = resp[r]
                 /\ reservations' = reservations]_vars

C23_Witness ==
    \E r \in Req :
        /\ pc[r] = "done"
        /\ IsSeatAlreadyBooked(resp[r])
        /\ Len(body[r].seats) = 2
        /\ resp[r].seat = body[r].seats[1]
        /\ body[r].seats[2] \notin occupiedSeats(reservations, body[r].tripId)
        /\ reservations = before[r]

\* ------------------------------------------------- the better-sqlite3 variant
\* The handler of src/src/App.tsx:1109-1131 is synchronous: it has no await,
\* so it runs from entry to response without another request's step between,
\* and it is one action.  A throw inside db.transaction rolls the inserts of
\* the call back.
\* A transaction that keeps the rows inserted before the throw.
RunSqliteNoRollback(rows, userId, b) ==
    IF userId = NoUser THEN [rows |-> rows, resp |-> ErrorResp(401, "Unauthorized", 0)]
    ELSE IF ~b.hasSeats THEN [rows |-> rows, resp |-> ErrorResp(500, "TypeError", 0)]
    ELSE IF Len(b.seats) > MaxSeatsPerBooking
    THEN [rows |-> rows, resp |-> ErrorResp(400, "Maximum 2 seats allowed", 0)]
    ELSE SeatLoop("sqlite", rows, userId, b, 1)

\* `seats.length` of a missing seats throws in the synchronous handler: Express
\* answers 500.  The select and its message are those of the postgres variant.
RunSqlite(rows, userId, b) ==
    IF userId = NoUser THEN [rows |-> rows, resp |-> ErrorResp(401, "Unauthorized", 0)]
    ELSE IF ~b.hasSeats THEN [rows |-> rows, resp |-> ErrorResp(500, "TypeError", 0)]
    ELSE IF Len(b.seats) > MaxSeatsPerBooking
    THEN [rows |-> rows, resp |-> ErrorResp(400, "Maximum 2 seats allowed", 0)]
    ELSE IF SeatLoop("sqlite", rows, userId, b, 1).resp = Success
    THEN SeatLoop("sqlite", rows, userId, b, 1)
    ELSE [rows |-> rows, resp |-> SeatLoop("sqlite", rows, userId, b, 1).resp]

InitSqlite ==
    /\ variant = "sqlite"
    /\ reservations = <<>>
    /\ pc = [r \in Req |-> "idle"]
    /\ session = [r \in Req |-> NoUser]
    /\ body = [r \in Req |-> NoBody]
    /\ idx = [r \in Req |-> 0]
    /\ resp = [r \in Req |-> NoResp]
    /\ before = [r \in Req |-> <<>>]
    /\ served = 0
    /\ users = <<>>
    /\ cookie = NoUser
    /\ trips = InsertTrips(<<>>, NewTrips("sqlite"))
    /\ seeder = NoSeeding
    /\ out = NoOut
    /\ client = NoClient

\* POST /api/reserve of the better-sqlite3 variant, from any client: requests
\* of several clients are served one whole handler after the other.
ReserveSqlite(r) ==
    /\ pc[r] = "idle"
    /\ served < MaxReqs
    /\ \E userId \in SessionUsers, b \in Bodies :
           /\ session' = [session EXCEPT ![r] = userId]
           /\ body' = [body EXCEPT ![r] = b]
           /\ before' = [before EXCEPT ![r] = reservations]
           /\ reservations' = RunSqlite(reservations, userId, b).rows
           /\ resp' = [resp EXCEPT ![r] = RunSqlite(reservations, userId, b).resp]
    /\ pc' = [pc EXCEPT ![r] = "done"]
    /\ served' = served + 1
    /\ UNCHANGED <<variant, idx>>
    /\ UNCHANGED apiVars
    /\ UNCHANGED client

\* At most one handler runs at any time: one slot serves every request.
NextSqlite == ReserveSqlite(1) \/ Close(1)

SpecSqlite == InitSqlite /\ [][NextSqlite]_vars

\* C24: in the better-sqlite3 variant, whatever the order in which the
\* requests of several clients are served, each (trip, seat) has at most one
\* paid row, and a request that is not answered with success leaves the table
\* as it was: a conflict on the second seat rolls back the insert of the first.
C24_SqliteAtomic ==
    /\ \A t \in TripIds, s \in SeatInputs : Cardinality(Matching(reservations, t, s)) <= 1
    /\ \A r \in Req :
           pc[r] = "done"
           => IF resp[r] = Success
              THEN /\ Len(reservations) = Len(before[r]) + Len(body[r].seats)
                   /\ IsPrefix(before[r], reservations)
              ELSE reservations = before[r]

C24_Witness ==
    \E r \in Req :
        /\ pc[r] = "done"
        /\ Len(body[r].seats) = 2
        /\ IsSeatAlreadyBooked(resp[r])
        /\ resp[r].seat = body[r].seats[2]
        /\ body[r].seats[1] # body[r].seats[2]
        /\ body[r].seats[1] \notin occupiedSeats(before[r], body[r].tripId)
        /\ reservations = before[r]

\* the response and the table the handler of variant v leaves for a request
RunVariant(v, rows, userId, b) ==
    IF v = "sqlite" THEN RunSqlite(rows, userId, b) ELSE RunAlone(v, rows, userId, b)

AllVariants == Variants \cup {"sqlite"}

\* C25: served the same reserve request on the same table with no other
\* request running, the server variants agree on success or error and leave
\* the same confirmed seats on every trip.
C25_VariantsEquivalent ==
    \A r \in Req :
        pc[r] = "done"
        => \A v, w \in AllVariants :
               LET a == RunVariant(v, before[r], session[r], body[r])
                   c == RunVariant(w, before[r], session[r], body[r])
               IN  /\ (a.resp = Success) = (c.resp = Success)
                   /\ \A t \in TripIds : occupiedSeats(a.rows, t) = occupiedSeats(c.rows, t)

\* C30: the session carries a user identifier only after a login with the
\* password of that user; a logout empties it and nothing else changes it.
\* While it is empty, a reserve request and a my-reservations request are
\* answered with 401 and the reservations table stays as it was.
C30_SessionOnlyAfterLogin ==
    /\ [](\A r \in Req :
              (pc[r] = "done" /\ session[r] = NoUser)
              => (resp[r].status = 401 /\ reservations = before[r]))
    /\ [][/\ (cookie' # cookie /\ cookie' # NoUser)
             => /\ out'.op = "login"
                /\ out'.status = 200
                /\ \E i \in DOMAIN users : /\ users[i].id = cookie'
                                           /\ users[i].password = Hash(out'.given)
          /\ (cookie' # cookie /\ cookie' = NoUser) => out'.op = "logout"
          /\ (out' # out /\ out'.op = "logout") => cookie' = NoUser
          /\ (cookie = NoUser /\ out' # out /\ out'.op = "my-reservations")
             => (out'.status = 401 /\ reservations' = reservations)]_vars

\* after a login, a booking and a logout, a reserve request is answered 401
C30_Witness ==
    /\ cookie = NoUser
    /\ users # <<>>
    /\ reservations # <<>>
    /\ out.op = "my-reservations"
    /\ out.status = 401
    /\ \E r \in Req : /\ pc[r] = "done"
                      /\ session[r] = NoUser
                      /\ resp[r].status = 401
                      /\ reservations = before[r]

\* ---------------------------------------------------------------- the client
\* The React client of one browser (src/src/App.tsx) against the server.  A
\* handler that awaits a fetch is two steps: up to the fetch, and from the
\* response on.  While `loading` is true the page shows a spinner (home view)
\* or an overlay above the page, so that no button takes a click.
ClientSeats == 1..NSeats

Loading == client.call # "none"

\* everything of the server that a step of the client's own leaves alone
requestVars == <<pc, session, body, idx, resp, before>>

\* the booking view renders selectedSeats.sort((a, b) => a - b), which sorts
\* the array of the state in place
Sorted(seats) == SortSeq(seats, LAMBDA a, b : a < b)

Includes(seats, seat) == \E i \in DOMAIN seats : seats[i] = seat

\* The page is served by src/server.ts; a user is registered, and the browser
\* may hold the session cookie of an earlier visit.
InitClient ==
    /\ variant = "supabase"
    /\ reservations = <<>>
    /\ pc = [r \in Req |-> "idle"]
    /\ session = [r \in Req |-> NoUser]
    /\ body = [r \in Req |-> NoBody]
    /\ idx = [r \in Req |-> 0]
    /\ resp = [r \in Req |-> NoResp]
    /\ before = [r \in Req |-> <<>>]
    /\ served = 0
    /\ users = <<[id |-> 1, matric_number |-> "m1", password |-> Hash("pw")]>>
    /\ cookie \in {NoUser, 1}
    /\ trips = InsertTrips(<<>>, NewTrips(variant))
    /\ seeder = NoSeeding
    /\ out = NoOut
    /\ client = NoClient

\* fetchUser, from the response of GET /api/me on
fetchUser ==
    /\ client.call = "me"
    /\ client' = [client EXCEPT !.call = "none",
                                !.user = IF cookie # NoUser THEN cookie ELSE @]
    /\ UNCHANGED <<variant, reservations, served, requestVars, apiVars>>

\* the logo of the navigation bar, the back arrow of the booking view, "Book
\* New Trip" and "Start Booking" of the history view: setView('home')
GoHome ==
    /\ ~Loading
    /\ client.view # "home"
    /\ client' = [client EXCEPT !.view = "home"]
    /\ UNCHANGED <<variant, reservations, served, requestVars, apiVars>>

\* "My Trips" of the navigation bar, shown to a logged-in user
GoHistory ==
    /\ ~Loading
    /\ client.user # NoUser
    /\ client.view # "history"
    /\ client' = [client EXCEPT !.view = "history"]
    /\ UNCHANGED <<variant, reservations, served, requestVars, apiVars>>

\* "Login" of the navigation bar and of the booking view, shown when no user
\* is logged in, and onSwitch / onSuccess of the register form
GoLogin ==
    /\ ~Loading
    /\ client.user = NoUser
    /\ client.view # "login"
    /\ client' = [client EXCEPT !.view = "login"]
    /\ UNCHANGED <<variant, reservations, served, requestVars, apiVars>>

\* "Register" of the navigation bar and onSwitch of the login form
GoRegister ==
    /\ ~Loading
    /\ client.user = NoUser
    /\ client.view # "register"
    /\ client' = [client EXCEPT !.view = "register"]
    /\ UNCHANGED <<variant, reservations, served, requestVars, apiVars>>

\* the login form is submitted; its onSuccess is the one of this render and
\* has read selectedTrip
SubmitLogin ==
    /\ ~Loading
    /\ client.view = "login"
    /\ client.loggingIn = "no"
    /\ client' = [client EXCEPT !.loggingIn = IF client.selectedTrip # 0
                                               THEN "toBooking" ELSE "toHome"]
    /\ UNCHANGED <<variant, reservations, served, requestVars, apiVars>>

\* the response of POST /api/login: onSuccess on success, an error message
\* of the form otherwise
LoginReturns(m, p) ==
    /\ client.loggingIn # "no"
    /\ IF \E i \in UsersWith(m) : Compare(p, users[i].password)
       THEN /\ cookie' = users[CHOOSE i \in UsersWith(m) : TRUE].id
            /\ client' = [client EXCEPT
                   !.loggingIn = "no",
                   !.user = users[CHOOSE i \in UsersWith(m) : TRUE].id,
                   !.view = IF client.loggingIn = "toBooking" THEN "booking" ELSE "home"]
       ELSE /\ cookie' = cookie
            /\ client' = [client EXCEPT !.loggingIn = "no"]
    /\ UNCHANGED <<variant, reservations, served, requestVars>>
    /\ UNCHANGED <<users, trips, seeder, out>>

\* handleLogout up to its fetch; the button is shown to a logged-in user
ClickLogout ==
    /\ ~Loading
    /\ client.user # NoUser
    /\ ~client.loggingOut
    /\ client' = [client EXCEPT !.loggingOut = TRUE]
    /\ UNCHANGED <<variant, reservations, served, requestVars, apiVars>>

\* A logout that forgets the user and stays on the view it was clicked on.
handleLogoutStaying ==
    /\ client.loggingOut
    /\ cookie' = NoUser
    /\ client' = [client EXCEPT !.loggingOut = FALSE, !.user = NoUser]
    /\ UNCHANGED <<variant, reservations, served, requestVars>>
    /\ UNCHANGED <<users, trips, seeder, out>>

\* handleLogout from the response on; the response empties the cookie
handleLogout ==
    /\ client.loggingOut
    /\ cookie' = NoUser
    /\ client' = [client EXCEPT !.loggingOut = FALSE, !.user = NoUser, !.view = "home"]
    /\ UNCHANGED <<variant, reservations, served, requestVars>>
    /\ UNCHANGED <<users, trips, seeder, out>>

\* searchTrips: both ends of the route are chosen.  The trips table is
\* seeded, so a search that finds nothing starts a seedTripsIfEmpty that
\* counts the rows and returns.
ClickSearch ==
    /\ ~Loading
    /\ client.view = "home"
    /\ client' = [client EXCEPT !.call = "trips"]
    /\ UNCHANGED <<variant, reservations, served, requestVars, apiVars>>

searchTrips(q) ==
    /\ client.call = "trips"
    /\ q.complete
    /\ \E found \in Orderings(findTrips(trips, q)) :
           client' = [client EXCEPT !.call = "none",
                                    !.availableTrips = [i \in DOMAIN found |-> found[i].id]]
    /\ UNCHANGED <<variant, reservations, served, requestVars, apiVars>>

\* selectTrip up to its fetch: a card of the list of available trips
ClickTrip(t) ==
    /\ ~Loading
    /\ client.view = "home"
    /\ Includes(client.availableTrips, t)
    /\ client' = [client EXCEPT !.selectedTrip = t, !.call = "seats"]
    /\ UNCHANGED <<variant, reservations, served, requestVars, apiVars>>

\* selectTrip from the response of GET /api/trips/:id/seats on
selectTrip ==
    /\ client.call = "seats"
    /\ \E found \in Orderings(SeatNumbers(reservations, client.selectedTrip)) :
           client' = [client EXCEPT !.call = "none", !.occupiedSeats = found,
                                    !.view = "booking"]
    /\ UNCHANGED <<variant, reservations, served, requestVars, apiVars>>

\* selectTrip when the fetch fails: "Failed to fetch seats"
selectTripFails ==
    /\ client.call = "seats"
    /\ client' = [client EXCEPT !.call = "none"]
    /\ UNCHANGED <<variant, reservations, served, requestVars, apiVars>>

\* A toggle without the check of selectedSeats.length.
ToggledNoCap(selected, occupied, seat) ==
    IF Includes(occupied, seat) THEN selected
    ELSE IF Includes(selected, seat) THEN SelectSeq(selected, LAMBDA s : s # seat)
    ELSE Append(selected, seat)

\* what handleSeatToggle leaves in selectedSeats
Toggled(selected, occupied, seat) ==
    IF Includes(occupied, seat) THEN selected
    ELSE IF Includes(selected, seat) THEN SelectSeq(selected, LAMBDA s : s # seat)
    ELSE IF Len(selected) >= 2 THEN selected
    ELSE Append(selected, seat)

\* a click on a seat of the grid; a seat shown as occupied is disabled
handleSeatToggle(seat) ==
    /\ ~Loading
    /\ client.view = "booking"
    /\ client.selectedTrip # 0
    /\ ~Includes(client.occupiedSeats, seat)
    /\ client' = [client EXCEPT
           !.selectedSeats = Sorted(Toggled(client.selectedSeats, client.occupiedSeats, seat))]
    /\ UNCHANGED <<variant, reservations, served, requestVars, apiVars>>

\* "Confirm Reservation" of the booking view: shown to a logged-in user,
\* disabled while no seat is selected
ClickConfirm ==
    /\ ~Loading
    /\ client.view = "booking"
    /\ client.selectedTrip # 0
    /\ client.user # NoUser
    /\ Len(client.selectedSeats) # 0
    /\ client' = [client EXCEPT !.view = "confirm"]
    /\ UNCHANGED <<variant, reservations, served, requestVars, apiVars>>

\* "Go Back" of the confirm view
GoBack ==
    /\ ~Loading
    /\ client.view = "confirm"
    /\ client.selectedTrip # 0
    /\ client' = [client EXCEPT !.view = "booking"]
    /\ UNCHANGED <<variant, reservations, served, requestVars, apiVars>>

\* handlePayment up to its fetch ("Pay Now" of the confirm view); the request
\* carries the cookie of this moment
ClickPay ==
    /\ ~Loading
    /\ client.view = "confirm"
    /\ client.selectedTrip # 0
    /\ served < MaxPays
    /\ served' = served + 1
    /\ client' = [client EXCEPT !.call = "reserve", !.session = cookie]
    /\ UNCHANGED <<variant, reservations, requestVars, apiVars>>

\* the body of the reserve call of the client
PaymentBody == [tripId |-> client.selectedTrip, seats |-> client.selectedSeats,
                hasSeats |-> TRUE]

\* handlePayment from the response on.  The browser has one reserve call in
\* flight and no other client writes, so the server handler runs alone.
handlePayment ==
    /\ client.call = "reserve"
    /\ LET run == RunAlone(variant, reservations, client.session, PaymentBody)
       IN  /\ reservations' = run.rows
           /\ client' = IF run.resp = Success
                        THEN [client EXCEPT !.call = "none", !.session = NoUser,
                                            !.selectedSeats = <<>>,
                                            !.selectedTrip = 0, !.view = "history"]
                        ELSE [client EXCEPT !.call = "none", !.session = NoUser]
    /\ UNCHANGED <<variant, served, requestVars, apiVars>>

NextClient ==
    \/ fetchUser
    \/ GoHome \/ GoHistory \/ GoLogin \/ GoRegister
    \/ SubmitLogin
    \/ \E m \in Matrics, p \in Passwords : LoginReturns(m, p)
    \/ ClickLogout \/ handleLogout
    \/ ClickSearch
    \/ \E q \in Queries : searchTrips(q)
    \/ \E t \in TripIds : ClickTrip(t)
    \/ selectTrip \/ selectTripFails
    \/ \E seat \in ClientSeats : handleSeatToggle(seat)
    \/ ClickConfirm \/ GoBack
    \/ ClickPay \/ handlePayment

SpecClient == InitClient /\ [][NextClient]_vars

\* C27: in the client, whatever the seat toggles, trip selections, payments
\* and view changes, selectedSeats holds at most 2 seat numbers and no seat
\* number twice.
C27_SelectionAtMostTwoDistinct ==
    /\ Len(client.selectedSeats) <= MaxSeatsPerBooking
    /\ \A i, j \in DOMAIN client.selectedSeats :
           client.selectedSeats[i] = client.selectedSeats[j] => i = j

\* two seats are selected on the booking view of a trip on which this user
\* has paid for a seat before, and a third seat of the grid is free to click
C27_Witness ==
    /\ client.view = "booking"
    /\ ~Loading
    /\ Len(client.selectedSeats) = MaxSeatsPerBooking
    /\ reservations # <<>>
    /\ \E seat \in ClientSeats : /\ ~Includes(client.selectedSeats, seat)
                                 /\ ~Includes(client.occupiedSeats, seat)

\* C28: in the client, selectedSeats never contains a seat that is in the
\* occupiedSeats list last fetched for the currently selected trip.
C28_SelectionDisjointFromOccupied ==
    client.selectedTrip # 0
    => \A i \in DOMAIN client.selectedSeats :
           ~Includes(client.occupiedSeats, client.selectedSeats[i])

\* C29: in the client, whenever the view is 'confirm', a user is logged in, a
\* trip is selected and selectedSeats is not empty; a reserve request is sent
\* from the confirm view only; and the response of a successful payment
\* leaves selectedSeats empty, selectedTrip null and the view 'history'.
C29_ConfirmViewAndPayment ==
    /\ [](client.view = "confirm"
          => /\ client.user # NoUser
             /\ client.selectedTrip # 0
             /\ client.selectedSeats # <<>>)
    /\ [][/\ (client.call # "reserve" /\ client'.call = "reserve")
             => client.view = "confirm"
          /\ (client.call = "reserve" /\ client'.call # "reserve"
                  /\ RunAlone(variant, reservations, client.session, PaymentBody).resp
                         = Success)
             => /\ client'.selectedSeats = <<>>
                /\ client'.selectedTrip = 0
                /\ client'.view = "history"]_vars

\* a payment has succeeded and left the history view, and the user has come
\* to the confirm view again with another selection
C29_Witness ==
    /\ client.view = "confirm"
    /\ ~Loading
    /\ reservations # <<>>
    /\ Len(client.selectedSeats) = 2
    /\ client.user # NoUser

====
